---- MODULE Spec2Model ----
(***************************************************************************)
(* Verification model of chocholous/dotfiles: the three chat front-ends    *)
(* (agent.py, bot.py, web.py) and the environment-file migration pipeline. *)
(*                                                                         *)
(* Text is modelled as a sequence of one-character strings, so that        *)
(* slicing, searching, trimming and concatenation are computed and not     *)
(* assumed.  Each program is a specification of its own over the module's  *)
(* variables; the variables of the programs a specification does not run   *)
(* stay at their idle values.                                              *)
(***************************************************************************)
EXTENDS Integers, Sequences, FiniteSets, TLC

VARIABLES
    sp_text,      \* split_message: argument text
    sp_limit,     \* split_message: argument limit
    sp_parts,     \* split_message: returned list
    sp_pc,        \* "call" before the call, "ret" after it
    sessions,     \* bot.py: chat_id -> session_id (None when absent)
    hs,           \* bot.py: the handle_message coroutines, by arrival number
    tg,           \* bot.py: the text last submitted to Telegram
    fresh,        \* history: chat was reset and no text message arrived since
    prog,         \* start-up: which front-end runs ("agent", "bot", "web")
    environ,      \* os.environ: variable -> value, or Unset
    dotenv,       \* the .env file: variable -> value, or Unset
    installed,    \* the optional packages that can be imported
    cfg,          \* the module-level configuration constants, once read
    f_pc,         \* the front-end's position
    created,      \* the objects created so far (client, bot, dispatcher, ...)
    status,       \* the process exit status, or Running
    checks,       \* history: the configuration constants tested, in order
    received,     \* history: the user inputs read, in order
    queried,      \* history: the texts passed to client.query, in order
    in_text,      \* agent.py: stream_response's in_text
    f_out         \* the last line printed or frame sent

\* web.py: one WebSocket connection as ws_endpoint serves it
VARIABLES
    w_sent,       \* history: the frames sent on the connection, in order
    w_events,     \* history: the blocks and results the agent client yielded
    w_reads,      \* history: the number of client frames read
    w_client,     \* the connection's agent client is open
    w_errors      \* history: the number of error frames attempted

\* web.py: the page's script (lines 310-445) and its socket
VARIABLES
    pg_sock,        \* the state of ws: none, connecting, open or closed
    pg_conn,        \* history: the number of sockets the page has created
    pg_srv,         \* the socket (by number) ws_endpoint is serving
    pg_timer,       \* setTimeout(connect, 2000) is pending
    pg_next,        \* the next frame of w_sent to arrive at onmessage
    pg_out,         \* the frames passed to ws.send and not yet read
    pg_sends,       \* history: the number of frames passed to ws.send
    pg_last,        \* history: the type of the last frame handled
    isStreaming,
    currentBubble,  \* 0 (null), the index in chat of the element, or Detached
    currentText,
    currentTools,
    pg_enabled,     \* input and send button are enabled (setStatus)
    chat            \* the message elements of #chat, in document order

\* the migration run (stage, flags, inputs, effects)
VARIABLES m_pc, m_dryRun, m_auto, m_backup, m_secrets, m_exists, m_hadIgnore,
          m_field, m_failedField, m_trace, m_ops, m_written, m_fs, m_code

\* pathPattern's arguments and results
VARIABLES p_rel, p_pat

vars_split == <<sp_text, sp_limit, sp_parts, sp_pc>>

vars_bot == <<sessions, hs, tg, fresh>>

vars_front ==
    <<prog, environ, dotenv, installed, cfg, f_pc, created, status, checks,
      received, queried, in_text, f_out>>

vars_ws == <<w_sent, w_events, w_reads, w_client, w_errors>>

vars_page ==
    <<pg_sock, pg_conn, pg_srv, pg_timer, pg_next, pg_out, pg_sends, pg_last,
      isStreaming, currentBubble, currentText, currentTools, pg_enabled, chat>>

vars_mig ==
    <<m_pc, m_dryRun, m_auto, m_backup, m_secrets, m_exists, m_hadIgnore,
      m_field, m_failedField, m_trace, m_ops, m_written, m_fs, m_code>>

vars_path == <<p_rel, p_pat>>

vars ==
    <<vars_split, vars_bot, vars_front, vars_ws, vars_page, vars_mig, vars_path>>

(***************************************************************************)
(* Text helpers (Python str semantics)                                      *)
(***************************************************************************)
NL == "\n"

\* Python None where a chat id or a number is expected.
None == 0

\* Python None where a session id is expected.  A session id is modelled as
\* <<n, c>>: the n-th session of the service, started for a message of chat c.
NoSid == <<>>

Min(a, b) == IF a <= b THEN a ELSE b

MaxOf(S) == CHOOSE x \in S : \A y \in S : y <= x

\* All sequences over alphabet A of length 0..n.
SeqsUpTo(A, n) == UNION {[1..k -> A] : k \in 0..n}

\* n copies of character c.
Rep(c, n) == [i \in 1..n |-> c]

\* text[a:b] for 0 <= a, 0 <= b (Python slice, 0-based, end exclusive).
Slice(text, a, b) ==
    LET e == Min(b, Len(text))
    IN  IF a >= e THEN <<>> ELSE SubSeq(text, a + 1, e)

\* text.rfind(sub, lo, hi): the highest 0-based index at which sub occurs
\* wholly inside text[lo:hi], or -1.
RFind(text, sub, lo, hi) ==
    LET e == Min(hi, Len(text))
        S == {i \in lo..(e - Len(sub)) :
                 \A k \in 1..Len(sub) : text[i + k] = sub[k]}
    IN  IF S = {} THEN -1 ELSE MaxOf(S)

\* text.lstrip(c) for a one-character set.
LStrip(text, c) ==
    LET keep == {i \in 1..Len(text) : text[i] # c}
    IN  IF keep = {} THEN <<>>
        ELSE SubSeq(text, CHOOSE i \in keep : \A j \in keep : i <= j, Len(text))

(***************************************************************************)
(* bot.py: truncate and split_message                                       *)
(***************************************************************************)
DefaultLimit == 4000

\* truncate(text, limit): text[:limit-3] + one ellipsis character.
truncate(text, limit) ==
    IF Len(text) <= limit THEN text
    ELSE Slice(text, 0, limit - 3) \o <<"...">>

\* The place split_message cuts a text longer than limit.
MutSplitCut(text, limit) ==
    LET para == RFind(text, <<NL, NL>>, 0, limit + 2)
        line == RFind(text, <<NL>>, 0, limit + 2)
    IN  IF para # -1 THEN para ELSE IF line # -1 THEN line ELSE limit

SplitCut(text, limit) ==
    LET para == RFind(text, <<NL, NL>>, 0, limit)
        line == RFind(text, <<NL>>, 0, limit)
    IN  IF para # -1 THEN para ELSE IF line # -1 THEN line ELSE limit

RECURSIVE SplitLoop(_, _, _)
SplitLoop(text, limit, parts) ==
    IF text = <<>> THEN parts
    ELSE IF Len(text) <= limit THEN Append(parts, text)
    ELSE LET cut == SplitCut(text, limit)
         IN  SplitLoop(LStrip(Slice(text, cut, Len(text)), NL), limit,
                       Append(parts, Slice(text, 0, cut)))

split_message(text, limit) ==
    IF Len(text) <= limit THEN <<text>> ELSE SplitLoop(text, limit, <<>>)

(***************************************************************************)
(* bot.py: the texts handle_message builds                                  *)
(***************************************************************************)
\* One-character stand-ins for the non-ASCII characters of the literals.
Gear == "@"
Dot == "."
Tick == "^"

\* sep.join(items)
RECURSIVE Join(_, _)
Join(items, sep) ==
    IF items = <<>> THEN <<>>
    ELSE IF Len(items) = 1 THEN items[1]
    ELSE items[1] \o sep \o Join(Tail(items), sep)

\* name.removeprefix(prefix)
removeprefix(name, prefix) ==
    IF Len(name) >= Len(prefix) /\ SubSeq(name, 1, Len(prefix)) = prefix
    THEN SubSeq(name, Len(prefix) + 1, Len(name))
    ELSE name

CoderPrefix == <<"c", "o", "d", "e", "r", "_">>

\* str(n) for n >= 0
RECURSIVE Digits(_)
Digits(n) ==
    LET d == <<"0", "1", "2", "3", "4", "5", "6", "7", "8", "9">>
    IN  IF n < 10 THEN <<d[n + 1]>> ELSE Digits(n \div 10) \o <<d[(n % 10) + 1]>>

\* f"{cost:.4f}" of a cost given in 1/10000 USD
Cost4f(c4) ==
    LET frac == Digits(c4 % 10000)
    IN  Digits(c4 \div 10000) \o <<Dot>> \o Rep("0", 4 - Len(frac)) \o frac

\* "<gear> `" + "` `".join(tools_used) + Tick
ToolLine(tools_used) ==
    <<Gear, " ", Tick>> \o Join(tools_used, <<Tick, " ", Tick>>) \o <<Tick>>

\* The preview edited in after a text block (lines 219-226).
TextPreview(full_text, tools_used) ==
    IF tools_used # <<>>
    THEN ToolLine(tools_used) \o <<NL, NL>> \o truncate(full_text, DefaultLimit)
    ELSE truncate(full_text, DefaultLimit)

\* The preview edited in after a tool call (lines 237-239).
ToolPreview(full_text, tools_used) ==
    IF full_text # <<>>
    THEN ToolLine(tools_used) \o <<NL, NL>> \o truncate(full_text, DefaultLimit)
    ELSE ToolLine(tools_used)

\* "_(bez odpovedi)_"
NoAnswer ==
    <<"_", "(", "b", "e", "z", " ", "o", "d", "p", "o", "v", "e", "d", "i", ")", "_">>

\* f"\n\n_{num_turns} turns <middle dot> ${cost:.4f}_"
Footer(turns, c4) ==
    <<NL, NL, "_">> \o Digits(turns)
        \o <<" ", "t", "u", "r", "n", "s", " ", Dot, " ", "$">>
        \o Cost4f(c4) \o <<"_">>

\* The parts of the final answer before truncation (lines 252-259).
FinalParts(full_text, tools_used, turns, c4) ==
    LET final == IF full_text # <<>> THEN full_text ELSE NoAnswer
        parts == split_message(final, DefaultLimit)
        withHeader ==
            IF tools_used # <<>>
            THEN [parts EXCEPT ![1] = ToolLine(tools_used) \o <<NL, NL>> \o @]
            ELSE parts
    IN  [withHeader EXCEPT ![Len(parts)] = @ \o Footer(turns, c4)]

StatusLen == 10
ErrPrefixLen == 10
ErrSliceLen == 200
PreviewEvery == 200
PreviewWindow == 20
WelcomeLen == 134
ResetOkLen == 36
HelpFixedLen == 335
CoderUrlLen == 29

(***************************************************************************)
(* bot.py: the handlers                                                     *)
(***************************************************************************)
Chats == {1, 2}

MaxHandlers == 2

Handlers == 1..MaxHandlers

\* A coroutine slot that has not started.  A coroutine's local is set back to
\* its value here at the step after which the code does not read it again.
Free ==
    [pc |-> "free", chat |-> None, resume_id |-> NoSid, new_session_id |-> NoSid,
     svc_sid |-> NoSid, full_text |-> <<>>, tools_used |-> <<>>, parts |-> <<>>,
     err |-> 0, first |-> FALSE]

Submit(k, n) == tg' = [kind |-> k, len |-> n]

\* cmd_start (lines 147-156)
CmdStart(c) ==
    /\ sessions' = [sessions EXCEPT ![c] = NoSid]
    /\ fresh' = [fresh EXCEPT ![c] = TRUE]
    /\ Submit("welcome", WelcomeLen)
    /\ UNCHANGED hs

\* cmd_reset (lines 159-162)
CmdReset(c) ==
    /\ sessions' = [sessions EXCEPT ![c] = NoSid]
    /\ fresh' = [fresh EXCEPT ![c] = TRUE]
    /\ Submit("reset_ok", ResetOkLen)
    /\ UNCHANGED hs

\* cmd_help (lines 165-180)
CmdHelp(c) ==
    /\ Submit("help", HelpFixedLen + CoderUrlLen)
    /\ UNCHANGED <<sessions, hs, fresh>>

\* handle_message is entered for a text message of chat c and awaits
\* send_chat_action (lines 184-189).
ReceiveText(c, h) ==
    /\ hs[h].pc = "free"
    /\ \A g \in Handlers : g < h => hs[g].pc # "free"
    /\ hs' = [hs EXCEPT ![h] = [Free EXCEPT !.pc = "typing", !.chat = c,
                                            !.first = fresh[c]]]
    /\ fresh' = [fresh EXCEPT ![c] = FALSE]
    /\ UNCHANGED <<sessions, tg>>

\* message.reply with the status text (line 192).
SendStatus(h) ==
    /\ hs[h].pc = "typing"
    /\ hs' = [hs EXCEPT ![h].pc = "status"]
    /\ Submit("status", StatusLen)
    /\ UNCHANGED <<sessions, fresh>>

\* An awaited Telegram call outside the try block raises: the coroutine ends.
AbortEarly(h) ==
    /\ hs[h].pc \in {"typing", "status"}
    /\ hs' = [hs EXCEPT ![h] = [Free EXCEPT !.pc = "done"]]
    /\ UNCHANGED <<sessions, tg, fresh>>

\* The key of sessions handle_message reads and writes.
MutSessionKey(h) == CHOOSE c \in Chats : c # hs[h].chat

SessionKey(h) == hs[h].chat

\* resume_id = sessions.get(chat_id); the client is opened (lines 194-202).
OpenClient(h) ==
    /\ hs[h].pc = "status"
    /\ hs' = [hs EXCEPT ![h].pc = "connect",
                        ![h].resume_id = sessions[SessionKey(h)]]
    /\ UNCHANGED <<sessions, tg, fresh>>

\* client.query(user_text) (line 203): the service continues the resumed
\* session under its id or under a new one, or starts a new session.
Query(h) ==
    /\ hs[h].pc = "connect"
    /\ \E sid \in {<<h, hs[h].chat>>} \cup ({hs[h].resume_id} \ {NoSid}) :
          hs' = [hs EXCEPT ![h].pc = "stream", ![h].svc_sid = sid,
                           ![h].resume_id = NoSid, ![h].first = FALSE]
    /\ UNCHANGED <<sessions, tg, fresh>>

\* A SystemMessage, with or without a session_id in its data (lines 206-211).
RecvSystem(h, withSid) ==
    /\ hs[h].pc = "stream"
    /\ hs' = [hs EXCEPT ![h].new_session_id =
                            IF withSid THEN hs[h].svc_sid ELSE NoSid]
    /\ UNCHANGED <<sessions, tg, fresh>>

\* A TextBlock of an AssistantMessage (lines 215-232).
RecvText(h, text) ==
    /\ hs[h].pc = "stream"
    /\ text # <<>>
    /\ LET full == hs[h].full_text \o text
       IN  /\ hs' = [hs EXCEPT ![h].full_text = full]
           /\ IF Len(full) % PreviewEvery < PreviewWindow
              THEN Submit("preview",
                          Len(TextPreview(full, hs[h].tools_used)))
              ELSE UNCHANGED tg
    /\ UNCHANGED <<sessions, fresh>>

\* A ToolUseBlock of an AssistantMessage (lines 234-245).
RecvTool(h, name) ==
    /\ hs[h].pc = "stream"
    /\ LET used == Append(hs[h].tools_used, removeprefix(name, CoderPrefix))
       IN  /\ hs' = [hs EXCEPT ![h].tools_used = used]
           /\ Submit("preview",
                     Len(ToolPreview(hs[h].full_text, used)))
    /\ UNCHANGED <<sessions, fresh>>

\* The ResultMessage: the first part edits the status message (lines 247-264).
RecvResult(h, turns, c4) ==
    /\ hs[h].pc = "stream"
    /\ LET parts == FinalParts(hs[h].full_text, hs[h].tools_used, turns, c4)
       IN  /\ hs' = [hs EXCEPT ![h].pc = "final",
                               ![h].new_session_id =
                                   IF @ = NoSid THEN hs[h].svc_sid ELSE @,
                               ![h].parts = Tail(parts),
                               ![h].svc_sid = NoSid,
                               ![h].full_text = <<>>,
                               ![h].tools_used = <<>>]
           /\ Submit("final", Len(truncate(parts[1], DefaultLimit)))
    /\ UNCHANGED <<sessions, fresh>>

\* Each further part is sent as a new message (lines 265-268).
SendPart(h) ==
    /\ hs[h].pc = "final"
    /\ hs[h].parts # <<>>
    /\ hs' = [hs EXCEPT ![h].parts = Tail(@)]
    /\ Submit("final", Len(truncate(Head(hs[h].parts), DefaultLimit)))
    /\ UNCHANGED <<sessions, fresh>>

\* The response stream ends and the client is closed (line 202, exit).
CloseClient(h) ==
    /\ \/ hs[h].pc = "final" /\ hs[h].parts = <<>>
       \/ hs[h].pc = "stream"
    /\ hs' = [hs EXCEPT ![h].pc = "close", ![h].svc_sid = NoSid,
                        ![h].full_text = <<>>, ![h].tools_used = <<>>]
    /\ UNCHANGED <<sessions, tg, fresh>>

\* sessions[chat_id] = new_session_id when one was captured (lines 270-272).
SaveSession(h) ==
    /\ hs[h].pc = "close"
    /\ sessions' = IF hs[h].new_session_id # NoSid
                   THEN [sessions EXCEPT ![SessionKey(h)] = hs[h].new_session_id]
                   ELSE sessions
    /\ hs' = [hs EXCEPT ![h] = [Free EXCEPT !.pc = "done"]]
    /\ UNCHANGED <<tg, fresh>>

\* An exception inside the try block: the error notice edits the status
\* message (lines 274-279).
Fail(h, errLen) ==
    /\ hs[h].pc \in {"connect", "stream", "final", "close"}
    /\ hs' = [hs EXCEPT ![h] = [Free EXCEPT !.pc = "error",
                                            !.err = Min(errLen, ErrSliceLen)]]
    /\ Submit("error", ErrPrefixLen + Min(errLen, ErrSliceLen) + 1)
    /\ UNCHANGED <<sessions, fresh>>

\* The edit raised too: the notice is sent as a new message (lines 280-281).
FailReply(h) ==
    /\ hs[h].pc = "error"
    /\ hs' = [hs EXCEPT ![h].pc = "error2"]
    /\ Submit("error", ErrPrefixLen - 1 + hs[h].err)
    /\ UNCHANGED <<sessions, fresh>>

\* The handler returns after the error notice.
FailDone(h) ==
    /\ hs[h].pc \in {"error", "error2"}
    /\ hs' = [hs EXCEPT ![h] = [Free EXCEPT !.pc = "done"]]
    /\ UNCHANGED <<sessions, tg, fresh>>

(***************************************************************************)
(* Start-up of the three front-ends (module level of agent.py, bot.py,      *)
(* web.py, up to the first object each creates)                              *)
(***************************************************************************)
Unset == "<unset>"
Token == "tok"
Running == -1

CODER == "CODER_SESSION_TOKEN"
TELEGRAM == "TELEGRAM_BOT_TOKEN"
EnvVars == {CODER, TELEGRAM}

NoCfg == [v \in EnvVars |-> Unset]

\* os.environ.get(name, "")
EnvGet(name) == IF environ[name] = Unset THEN "" ELSE environ[name]

\* sys.exit(1) at module level
Exit1 ==
    /\ f_pc' = "exited"
    /\ status' = 1

\* agent.py lines 16-27: the SDK import, with sys.exit(1) on ImportError.
ImportSdk ==
    /\ prog = "agent"
    /\ f_pc = "boot"
    /\ IF "sdk" \in installed
       THEN f_pc' = "dotenv" /\ status' = status
       ELSE Exit1
    /\ UNCHANGED <<prog, environ, dotenv, installed, cfg, created, checks,
                   received, queried, in_text, f_out>>

\* load_dotenv(...) when python-dotenv is installed: a variable of the file
\* is set unless the environment already has it (agent.py 29-34, bot.py
\* 15-20, web.py 16-21).
LoadDotenv ==
    /\ \/ prog = "agent" /\ f_pc = "dotenv"
       \/ prog \in {"bot", "web"} /\ f_pc = "boot"
    /\ environ' = IF "dotenv" \in installed
                  THEN [v \in EnvVars |->
                           IF environ[v] = Unset THEN dotenv[v] ELSE environ[v]]
                  ELSE environ
    /\ f_pc' = "config"
    /\ UNCHANGED <<prog, dotenv, installed, cfg, created, status, checks,
                   received, queried, in_text, f_out>>

\* The configuration constants are read (agent.py 46-48, bot.py 37-40,
\* web.py 35-37).
ReadConfig ==
    /\ f_pc = "config"
    /\ cfg' = [v \in EnvVars |->
                  IF v = TELEGRAM /\ prog # "bot" THEN Unset ELSE EnvGet(v)]
    /\ f_pc' = IF prog = "bot" THEN "check_telegram" ELSE "check_coder"
    /\ UNCHANGED <<prog, environ, dotenv, installed, created, status, checks,
                   received, queried, in_text, f_out>>

\* The test `if not X` of a configuration constant.
MutIsEmpty(value) == FALSE

IsEmpty(value) == value = ""

\* bot.py lines 42-47
CheckTelegram ==
    /\ prog = "bot"
    /\ f_pc = "check_telegram"
    /\ checks' = Append(checks, TELEGRAM)
    /\ IF IsEmpty(cfg[TELEGRAM])
       THEN Exit1
       ELSE f_pc' = "check_coder" /\ status' = status
    /\ UNCHANGED <<prog, environ, dotenv, installed, cfg, created,
                   received, queried, in_text, f_out>>

\* agent.py lines 50-54, bot.py lines 49-51, web.py lines 39-41
CheckCoder ==
    /\ f_pc = "check_coder"
    /\ checks' = Append(checks, CODER)
    /\ IF IsEmpty(cfg[CODER])
       THEN Exit1
       ELSE f_pc' = "create" /\ status' = status
    /\ UNCHANGED <<prog, environ, dotenv, installed, cfg, created,
                   received, queried, in_text, f_out>>

\* bot.py lines 143-144 and 284-287: Bot, Dispatcher, then polling.
CreateBot ==
    /\ prog = "bot"
    /\ f_pc = "create"
    /\ created' = created \cup {"bot", "dispatcher"}
    /\ f_pc' = "polling"
    /\ UNCHANGED <<prog, environ, dotenv, installed, cfg, status, checks,
                   received, queried, in_text, f_out>>

\* web.py lines 452 and 508-511: the FastAPI app, then uvicorn.run.
CreateWeb ==
    /\ prog = "web"
    /\ f_pc = "create"
    /\ created' = created \cup {"app", "server"}
    /\ f_pc' = "serving"
    /\ UNCHANGED <<prog, environ, dotenv, installed, cfg, status, checks,
                   received, queried, in_text, f_out>>

\* agent.py lines 151-181: run_repl opens the agent client.
CreateRepl ==
    /\ prog = "agent"
    /\ f_pc = "create"
    /\ created' = created \cup {"client"}
    /\ f_pc' = "prompt"
    /\ f_out' = "connected"
    /\ UNCHANGED <<prog, environ, dotenv, installed, cfg, status, checks,
                   received, queried, in_text>>

(***************************************************************************)
(* agent.py: run_repl and stream_response; web.py: ws_endpoint               *)
(***************************************************************************)
Whitespace == {" ", "\t", NL}

\* text.strip()
Strip(text) ==
    LET keep == {i \in 1..Len(text) : text[i] \notin Whitespace}
    IN  IF keep = {} THEN <<>>
        ELSE SubSeq(text, CHOOSE i \in keep : \A j \in keep : i <= j, MaxOf(keep))

UpperCase ==
    <<"A", "B", "C", "D", "E", "F", "G", "H", "I", "J", "K", "L", "M",
      "N", "O", "P", "Q", "R", "S", "T", "U", "V", "W", "X", "Y", "Z">>

LowerCase ==
    <<"a", "b", "c", "d", "e", "f", "g", "h", "i", "j", "k", "l", "m",
      "n", "o", "p", "q", "r", "s", "t", "u", "v", "w", "x", "y", "z">>

\* text.lower()
Lower(text) ==
    [i \in 1..Len(text) |->
        IF \E k \in 1..Len(UpperCase) : UpperCase[k] = text[i]
        THEN LowerCase[CHOOSE k \in 1..Len(UpperCase) : UpperCase[k] = text[i]]
        ELSE text[i]]

\* ("exit", "quit", "konec", ":q")
ExitWords ==
    { <<"e", "x", "i", "t">>, <<"q", "u", "i", "t">>,
      <<"k", "o", "n", "e", "c">>, <<":", "q">> }

\* The test `if not text` of a trimmed input.
MutIsBlank(text) == FALSE

IsBlank(text) == text = <<>>

vars_env == <<prog, environ, dotenv, installed, cfg, status, checks>>

\* One round of the REPL loop up to client.query (agent.py lines 184-201).
ReplRead(line) ==
    /\ f_pc = "prompt"
    /\ received' = Append(received, line)
    /\ LET user_input == Strip(line)
       IN  IF IsBlank(user_input)
           THEN /\ f_pc' = "prompt"
                /\ f_out' = "prompt"
                /\ UNCHANGED queried
           ELSE IF Lower(user_input) \in ExitWords
           THEN /\ f_pc' = "closing"
                /\ f_out' = "bye"
                /\ UNCHANGED queried
           ELSE /\ queried' = Append(queried, user_input)
                /\ f_pc' = "query"
                /\ f_out' = "blank"
    /\ UNCHANGED <<vars_env, created, in_text>>

\* EOFError or KeyboardInterrupt at the prompt (lines 189-191).
ReplEof ==
    /\ f_pc = "prompt"
    /\ f_pc' = "closing"
    /\ f_out' = "bye"
    /\ UNCHANGED <<vars_env, created, received, queried, in_text>>

\* The loop was left: the client is closed and the process ends.
ReplClose ==
    /\ f_pc = "closing"
    /\ f_pc' = "exited"
    /\ status' = 0
    /\ UNCHANGED <<prog, environ, dotenv, installed, cfg, checks, created,
                   received, queried, in_text, f_out>>

\* client.query returned; stream_response starts (lines 120-124, 202).
ReplQueryDone ==
    /\ f_pc = "query"
    /\ f_pc' = "stream"
    /\ in_text' = FALSE
    /\ UNCHANGED <<vars_env, created, received, queried, f_out>>

\* A non-empty TextBlock (lines 127-131).
ReplText ==
    /\ f_pc = "stream"
    /\ in_text' = TRUE
    /\ f_out' = "text"
    /\ UNCHANGED <<vars_env, created, received, queried, f_pc>>

\* A ToolUseBlock (lines 132-136).
ReplTool ==
    /\ f_pc = "stream"
    /\ in_text' = FALSE
    /\ f_out' = "tool"
    /\ UNCHANGED <<vars_env, created, received, queried, f_pc>>

\* The stream ends, with or without a ResultMessage; the summary is printed
\* and the loop prompts again (lines 138-146, 212).
ReplDone(withResult) ==
    /\ f_pc = "stream"
    /\ f_pc' = "prompt"
    /\ in_text' = FALSE
    /\ f_out' = IF withResult THEN "summary" ELSE "summary0"
    /\ UNCHANGED <<vars_env, created, received, queried>>

\* KeyboardInterrupt or another exception in query or stream_response
\* (lines 203-210): reported, and the loop goes on.
ReplFail(kind) ==
    /\ f_pc \in {"query", "stream"}
    /\ f_pc' = "prompt"
    /\ in_text' = FALSE
    /\ f_out' = kind
    /\ UNCHANGED <<vars_env, created, received, queried>>

\* isinstance(block, TextBlock) and block.text, or a ToolUseBlock.
MutRelayed(kind) == TRUE

Relayed(kind) == kind \in {"text", "tool"}

\* The inner try of the except branch: a failed send of the error frame is
\* swallowed and the handler returns (lines 502-505).
MutOnErrorSendFailure == "ws_except"

OnErrorSendFailure == "serving"

\* websocket.accept(), make_options() (web.py lines 461-463).
WsAccept ==
    /\ f_pc = "serving"
    /\ f_pc' = "ws_open"
    /\ UNCHANGED <<vars_env, created, received, queried, in_text, f_out>>

\* async with ClaudeSDKClient(...): the agent client is open (line 465).
WsOpenClient ==
    /\ f_pc = "ws_open"
    /\ created' = created \cup {"client"}
    /\ f_pc' = "ws_ready"
    /\ UNCHANGED <<vars_env, received, queried, in_text, f_out>>

\* The ready frame is sent (line 466).
WsReady ==
    /\ f_pc = "ws_ready"
    /\ f_pc' = "ws_recv"
    /\ f_out' = "ready"
    /\ UNCHANGED <<vars_env, created, received, queried, in_text>>

\* data.get("type") == "message" (line 469)
MutIsMessage(frame) == TRUE

IsMessage(frame) == frame.type = "message"

\* receive_json returned a frame (lines 468-475).
WsReceive(frame) ==
    /\ f_pc = "ws_recv"
    /\ received' = Append(received, frame)
    /\ IF ~IsMessage(frame)
       THEN UNCHANGED <<f_pc, queried>>
       ELSE LET text == Strip(frame.text)
            IN  IF IsBlank(text)
                THEN UNCHANGED <<f_pc, queried>>
                ELSE /\ queried' = Append(queried, text)
                     /\ f_pc' = "ws_query"
    /\ UNCHANGED <<vars_env, created, in_text, f_out>>

\* client.query returned; the response is read (line 477).
WsQueryDone ==
    /\ f_pc = "ws_query"
    /\ f_pc' = "ws_stream"
    /\ UNCHANGED <<vars_env, created, received, queried, in_text, f_out>>

\* A block of an AssistantMessage: a non-empty TextBlock or a ToolUseBlock
\* is relayed, anything else is passed over (lines 478-490).
WsBlock(kind) ==
    /\ f_pc = "ws_stream"
    /\ f_out' = IF Relayed(kind) THEN kind ELSE f_out
    /\ UNCHANGED <<vars_env, created, received, queried, in_text, f_pc>>

\* The ResultMessage is relayed as the done frame (lines 491-498).
WsResult ==
    /\ f_pc = "ws_stream"
    /\ f_pc' = "ws_done"
    /\ f_out' = "done"
    /\ UNCHANGED <<vars_env, created, received, queried, in_text>>

\* Where the loop resumes: at receive_json, inside the loop that follows the
\* ready frame (lines 466-468).
MutLoopHead == "ws_ready"

LoopHead == "ws_recv"

\* The response stream ended: back to receive_json (line 468).
WsNext ==
    /\ f_pc \in {"ws_stream", "ws_done"}
    /\ f_pc' = LoopHead
    /\ UNCHANGED <<vars_env, created, received, queried, in_text, f_out>>

\* WebSocketDisconnect at an awaited websocket call: the handler returns
\* without sending (lines 499-500).
WsDisconnect ==
    /\ f_pc \in {"ws_ready", "ws_recv", "ws_stream", "ws_done"}
    /\ f_pc' = "serving"
    /\ UNCHANGED <<vars_env, created, received, queried, in_text, f_out>>

\* Any other exception: one error frame is attempted, delivered or not, and
\* the handler returns (lines 501-505).
WsError(delivered) ==
    /\ f_pc \in {"ws_open", "ws_ready", "ws_recv", "ws_query", "ws_stream",
                 "ws_done"}
    /\ IF delivered
       THEN f_pc' = "serving" /\ f_out' = "error"
       ELSE f_pc' = OnErrorSendFailure /\ UNCHANGED f_out
    /\ UNCHANGED <<vars_env, created, received, queried, in_text>>

(***************************************************************************)
(* What one connection shows from outside: the frames sent, the blocks and  *)
(* results the agent client yielded, the client frames read.  Each Log      *)
(* formula is conjoined with the step of ws_endpoint it records.            *)
(***************************************************************************)
\* A frame sent to the browser; src is the index in w_events of the block
\* or result it relays (0 for ready and error).
Frame(type, src) == [type |-> type, src |-> src]

\* What the agent client yielded: kind is text, tool, empty (a TextBlock
\* with empty text) or result; resp numbers the queries.
Event(kind) == [kind |-> kind, resp |-> Len(queried)]

LogAccept ==
    /\ w_sent' = <<>>
    /\ w_events' = <<>>
    /\ w_reads' = 0
    /\ w_client' = FALSE
    /\ w_errors' = 0

LogOpenClient ==
    /\ w_client' = TRUE
    /\ UNCHANGED <<w_sent, w_events, w_reads, w_errors>>

LogReady ==
    /\ w_sent' = Append(w_sent, Frame("ready", 0))
    /\ UNCHANGED <<w_events, w_reads, w_client, w_errors>>

LogReceive ==
    /\ w_reads' = w_reads + 1
    /\ UNCHANGED <<w_sent, w_events, w_client, w_errors>>

LogBlock(kind) ==
    /\ w_events' = Append(w_events, Event(kind))
    /\ w_sent' = IF Relayed(kind)
                 THEN Append(w_sent, Frame(kind, Len(w_events) + 1))
                 ELSE w_sent
    /\ UNCHANGED <<w_reads, w_client, w_errors>>

LogResult ==
    /\ w_events' = Append(w_events, Event("result"))
    /\ w_sent' = Append(w_sent, Frame("done", Len(w_events) + 1))
    /\ UNCHANGED <<w_reads, w_client, w_errors>>

LogDisconnect ==
    /\ w_client' = FALSE
    /\ UNCHANGED <<w_sent, w_events, w_reads, w_errors>>

LogError(delivered) ==
    /\ w_client' = FALSE
    /\ w_errors' = w_errors + 1
    /\ w_sent' = IF delivered THEN Append(w_sent, Frame("error", 0)) ELSE w_sent
    /\ UNCHANGED <<w_events, w_reads>>

(***************************************************************************)
(* web.py: the script of the page (lines 310-445).  chat holds the message  *)
(* elements in document order; the text chunks and tool badges an element   *)
(* shows are recorded by the number of the response they came with.         *)
(***************************************************************************)
\* currentBubble refers to an element that chat.innerHTML = '' has removed.
Detached == -1

\* The bubble content '<em>Chyba: ...</em>' (line 408).
ErrorChunk == 0

\* The element addUserMsg appends (lines 334-340).
UserMsg ==
    [kind |-> "user", resp |-> 0, streaming |-> FALSE, bubble |-> <<>>,
     cursor |-> FALSE, tools |-> <<>>, meta |-> FALSE]

\* The element startAssistantMsg appends (lines 352-356): its id is
\* streaming, its children have the ids tools-row and stream-bubble.
AssistantMsg(resp) ==
    [kind |-> "assistant", resp |-> resp, streaming |-> TRUE, bubble |-> <<>>,
     cursor |-> TRUE, tools |-> <<>>, meta |-> FALSE]

\* The lowest index of a set of indices, 0 (null) for the empty set.
FirstOf(S) == IF S = {} THEN 0 ELSE CHOOSE i \in S : \A j \in S : i <= j

\* document.getElementById('stream-bubble') and getElementById('tools-row'):
\* the first element in document order that has the id; no assistant
\* element ever loses these two ids.
ByChildId(c) == FirstOf({i \in 1..Len(c) : c[i].kind = "assistant"})

\* document.getElementById('streaming')
ByStreamingId(c) == FirstOf({i \in 1..Len(c) : c[i].streaming})

\* The frame that arrives next at ws.onmessage.
Arriving == w_sent[pg_next]

Arrives(type) ==
    /\ pg_sock = "open"
    /\ pg_srv = pg_conn
    /\ pg_next <= Len(w_sent)
    /\ Arriving.type = type

\* The response a text, tool or done frame belongs to.
RespOf(frame) == w_events[frame.src].resp

\* connect() (lines 388-390), called when the script is loaded and by the
\* reconnect timer.
PageConnect ==
    /\ pg_sock = "none" \/ pg_timer
    /\ pg_sock' = "connecting"
    /\ pg_conn' = pg_conn + 1
    /\ pg_timer' = FALSE
    /\ pg_next' = 1
    /\ pg_out' = <<>>
    /\ UNCHANGED <<pg_srv, pg_sends, pg_last, isStreaming, currentBubble,
                   currentText, currentTools, pg_enabled, chat>>

\* ws.onopen (line 392)
PageOnOpen ==
    /\ pg_sock = "connecting"
    /\ pg_srv = pg_conn
    /\ pg_sock' = "open"
    /\ pg_enabled' = FALSE
    /\ pg_last' = "open"
    /\ UNCHANGED <<pg_conn, pg_srv, pg_timer, pg_next, pg_out, pg_sends,
                   isStreaming, currentBubble, currentText, currentTools,
                   chat>>

\* ws.onclose (lines 414-417), also reached through ws.onerror (line 419):
\* the socket was closed by the server or the network at any point.
PageOnClose ==
    /\ pg_sock \in {"connecting", "open"}
    /\ pg_sock' = "closed"
    /\ pg_enabled' = FALSE
    /\ pg_timer' = TRUE
    /\ pg_last' = "close"
    /\ UNCHANGED <<pg_conn, pg_srv, pg_next, pg_out, pg_sends, isStreaming,
                   currentBubble, currentText, currentTools, chat>>

\* onmessage, type ready (lines 395-397)
PageOnReady ==
    /\ Arrives("ready")
    /\ pg_next' = pg_next + 1
    /\ pg_last' = "ready"
    /\ chat' = <<>>
    /\ currentBubble' = IF currentBubble = 0 THEN 0 ELSE Detached
    /\ pg_enabled' = TRUE
    /\ UNCHANGED <<pg_sock, pg_conn, pg_srv, pg_timer, pg_out, pg_sends,
                   isStreaming, currentText, currentTools>>

\* chat after startAssistantMsg (lines 346-359) if no message is being
\* streamed, chat as it is otherwise.
Started(resp) == IF isStreaming THEN chat ELSE Append(chat, AssistantMsg(resp))

\* currentBubble after the same.
StartedBubble(resp) ==
    IF isStreaming THEN currentBubble ELSE ByChildId(Started(resp))

\* onmessage, type text (lines 398-400): startAssistantMsg unless streaming,
\* then appendText (lines 361-365).
PageOnText ==
    /\ Arrives("text")
    /\ LET resp == RespOf(Arriving)
           c == Started(resp)
           b == StartedBubble(resp)
           text == (IF isStreaming THEN currentText ELSE <<>>) \o <<resp>>
       IN  /\ currentText' = text
           /\ currentTools' = IF isStreaming THEN currentTools ELSE <<>>
           /\ currentBubble' = b
           /\ chat' = IF b \in 1..Len(c)
                      THEN [c EXCEPT ![b].bubble = text, ![b].cursor = TRUE]
                      ELSE c
    /\ isStreaming' = TRUE
    /\ pg_next' = pg_next + 1
    /\ pg_last' = "text"
    /\ UNCHANGED <<pg_sock, pg_conn, pg_srv, pg_timer, pg_out, pg_sends,
                   pg_enabled>>

\* onmessage, type tool (lines 401-403): startAssistantMsg unless streaming,
\* then addTool (lines 367-372).
PageOnTool ==
    /\ Arrives("tool")
    /\ LET resp == RespOf(Arriving)
           c == Started(resp)
           tools == (IF isStreaming THEN currentTools ELSE <<>>) \o <<resp>>
           row == ByChildId(c)
       IN  /\ currentTools' = tools
           /\ currentText' = IF isStreaming THEN currentText ELSE <<>>
           /\ currentBubble' = StartedBubble(resp)
           /\ chat' = IF row # 0 THEN [c EXCEPT ![row].tools = tools] ELSE c
    /\ isStreaming' = TRUE
    /\ pg_next' = pg_next + 1
    /\ pg_last' = "tool"
    /\ UNCHANGED <<pg_sock, pg_conn, pg_srv, pg_timer, pg_out, pg_sends,
                   pg_enabled>>

\* onmessage, type done (lines 404-405): finishMsg (lines 374-386).  With
\* currentBubble set and no element of id streaming, line 380 throws a
\* TypeError and lines 381-385 are not reached.
PageOnDone ==
    /\ Arrives("done")
    /\ LET c == IF currentBubble \in 1..Len(chat)
                THEN [chat EXCEPT ![currentBubble].bubble = currentText,
                                  ![currentBubble].cursor = FALSE]
                ELSE chat
           st == ByStreamingId(c)
       IN  IF currentBubble # 0 /\ st = 0
           THEN /\ chat' = c
                /\ UNCHANGED <<isStreaming, pg_enabled>>
           ELSE /\ chat' = IF currentBubble # 0
                           THEN [c EXCEPT ![st].meta = TRUE,
                                          ![st].streaming = FALSE]
                           ELSE c
                /\ isStreaming' = FALSE
                /\ pg_enabled' = TRUE
    /\ pg_next' = pg_next + 1
    /\ pg_last' = "done"
    /\ UNCHANGED <<pg_sock, pg_conn, pg_srv, pg_timer, pg_out, pg_sends,
                   currentBubble, currentText, currentTools>>

\* onmessage, type error (lines 406-410)
PageOnError ==
    /\ Arrives("error")
    /\ chat' = IF currentBubble \in 1..Len(chat)
               THEN [chat EXCEPT ![currentBubble].bubble = <<ErrorChunk>>,
                                 ![currentBubble].cursor = FALSE]
               ELSE chat
    /\ isStreaming' = FALSE
    /\ pg_enabled' = FALSE
    /\ pg_next' = pg_next + 1
    /\ pg_last' = "error"
    /\ UNCHANGED <<pg_sock, pg_conn, pg_srv, pg_timer, pg_out, pg_sends,
                   currentBubble, currentText, currentTools>>

\* send() goes on to ws.send: the trimmed text is not empty and no message
\* is being streamed (line 424).
SendTransmits(text) == ~(IsBlank(Strip(text)) \/ isStreaming)

\* send() (lines 422-430), from the Enter key or the button, which need
\* the input to be enabled.
PageSend(text) ==
    /\ pg_enabled
    /\ IF ~SendTransmits(text)
       THEN UNCHANGED <<chat, pg_enabled, pg_out, pg_sends, pg_last>>
       ELSE /\ chat' = Append(chat, UserMsg)
            /\ pg_enabled' = FALSE
            /\ IF pg_sock = "open"
               THEN /\ pg_out' = Append(pg_out, [type |-> "message",
                                                 text |-> Strip(text)])
                    /\ pg_sends' = pg_sends + 1
                    /\ pg_last' = "send"
               ELSE UNCHANGED <<pg_out, pg_sends, pg_last>>
    /\ UNCHANGED <<pg_sock, pg_conn, pg_srv, pg_timer, pg_next, isStreaming,
                   currentBubble, currentText, currentTools>>

\* ws_endpoint is called for the socket the page is connecting.
LinkAccept ==
    /\ pg_sock = "connecting"
    /\ pg_srv # pg_conn
    /\ pg_srv' = pg_conn
    /\ UNCHANGED <<pg_sock, pg_conn, pg_timer, pg_next, pg_out, pg_sends,
                   pg_last, isStreaming, currentBubble, currentText,
                   currentTools, pg_enabled, chat>>

\* receive_json returns the oldest frame the page has sent on the socket.
LinkReceive ==
    /\ pg_srv = pg_conn
    /\ pg_out # <<>>
    /\ pg_out' = Tail(pg_out)
    /\ UNCHANGED <<pg_sock, pg_conn, pg_srv, pg_timer, pg_next, pg_sends,
                   pg_last, isStreaming, currentBubble, currentText,
                   currentTools, pg_enabled, chat>>

(***************************************************************************)
(* MigrationOrchestrator: the eight stages of one migration run, as section *)
(* 4.5 of the specification describes them (the scripts are not among the   *)
(* sources).  m_trace records each stage with its outcome, m_ops the calls  *)
(* of the vault tool, m_written the fields of the item written by this run, *)
(* m_fs the files written.                                                   *)
(***************************************************************************)
Stage(n, outcome) == [stage |-> n, outcome |-> outcome]

ToolOp(op, field) == [op |-> op, field |-> field]

\* External-tool steps are performed only when the run is not a dry run.
MutLive == TRUE

Live == ~m_dryRun

\* A fatal error: the process exits non-zero.
Fatal(n) ==
    /\ m_trace' = Append(m_trace, Stage(n, "failed"))
    /\ m_pc' = "exit"
    /\ m_code' = 1

\* Where the run goes when the upsert fails: it aborts before stage 6.
MutOnUpsertFailure == "s6"

OnUpsertFailure == "exit"

\* The fields of the item after a failed field update: no rollback.
MutAfterFieldFailure(written) == {}

AfterFieldFailure(written) == written

\* Stage 1: explicit (vault, item) arguments, or automatic resolution, which
\* can fail (no repository, no remote, unsupported host, unparsable URL).
ResolveNaming(ok) ==
    /\ m_pc = "s1"
    /\ ok \/ m_auto
    /\ IF ok
       THEN /\ m_trace' = Append(m_trace, Stage(1, "ok"))
            /\ m_pc' = "s2"
            /\ UNCHANGED m_code
       ELSE Fatal(1)
    /\ UNCHANGED <<m_dryRun, m_auto, m_backup, m_secrets, m_exists,
                   m_hadIgnore, m_field, m_failedField, m_ops, m_written, m_fs>>

\* Stage 2: the environment file is read and parsed (a missing file is an
\* input error).
ParseSource(ok) ==
    /\ m_pc = "s2"
    /\ IF ok
       THEN /\ m_trace' = Append(m_trace, Stage(2, "ok"))
            /\ m_pc' = "s3"
            /\ UNCHANGED m_code
       ELSE Fatal(2)
    /\ UNCHANGED <<m_dryRun, m_auto, m_backup, m_secrets, m_exists,
                   m_hadIgnore, m_field, m_failedField, m_ops, m_written, m_fs>>

\* The partition of the environment file holds no secret.
MutNoSecrets == FALSE

NoSecrets == m_secrets = 0

\* Stage 3: with zero secrets the run ends successfully with no mutation.
Partition ==
    /\ m_pc = "s3"
    /\ IF NoSecrets
       THEN /\ m_trace' = Append(m_trace, Stage(3, "noop"))
            /\ m_pc' = "exit"
            /\ m_code' = 0
       ELSE /\ m_trace' = Append(m_trace, Stage(3, "ok"))
            /\ m_pc' = "s4"
            /\ UNCHANGED m_code
    /\ UNCHANGED <<m_dryRun, m_auto, m_backup, m_secrets, m_exists,
                   m_hadIgnore, m_field, m_failedField, m_ops, m_written, m_fs>>

\* Stage 4: skipped entirely in a dry run; otherwise the tool must be
\* installed (--version) and the operator authenticated (whoami).
ValidateTool(installedTool, authenticated) ==
    /\ m_pc = "s4"
    /\ IF ~Live
       THEN /\ m_trace' = Append(m_trace, Stage(4, "skipped"))
            /\ m_pc' = "s5"
            /\ UNCHANGED <<m_ops, m_code>>
       ELSE /\ m_ops' = m_ops \o <<ToolOp("version", 0)>>
                          \o (IF installedTool THEN <<ToolOp("whoami", 0)>>
                              ELSE <<>>)
            /\ IF installedTool /\ authenticated
               THEN /\ m_trace' = Append(m_trace, Stage(4, "ok"))
                    /\ m_pc' = "s5"
                    /\ UNCHANGED m_code
               ELSE Fatal(4)
    /\ UNCHANGED <<m_dryRun, m_auto, m_backup, m_secrets, m_exists,
                   m_hadIgnore, m_field, m_failedField, m_written, m_fs>>

\* Stage 5 in a dry run: the field mapping is only printed.
UpsertPrint ==
    /\ m_pc = "s5"
    /\ ~Live
    /\ m_trace' = Append(m_trace, Stage(5, "ok"))
    /\ m_pc' = "s6"
    /\ UNCHANGED <<m_dryRun, m_auto, m_backup, m_secrets, m_exists,
                   m_hadIgnore, m_field, m_failedField, m_ops, m_written,
                   m_fs, m_code>>

\* Stage 5, live: does the item exist in the vault (item get)?
UpsertLookup ==
    /\ m_pc = "s5"
    /\ Live
    /\ m_ops' = Append(m_ops, ToolOp("get", 0))
    /\ IF m_exists
       THEN m_pc' = "s5_edit" /\ m_field' = 1
       ELSE m_pc' = "s5_create" /\ UNCHANGED m_field
    /\ UNCHANGED <<m_dryRun, m_auto, m_backup, m_secrets, m_exists,
                   m_hadIgnore, m_failedField, m_trace, m_written, m_fs,
                   m_code>>

\* Stage 5, live, existing item: one field is updated (item edit); a failure
\* aborts the run and what was written stays written.
UpsertEdit(ok) ==
    /\ m_pc = "s5_edit"
    /\ m_ops' = Append(m_ops, ToolOp("edit", m_field))
    /\ IF ok
       THEN /\ m_written' = m_written \cup {m_field}
            /\ IF m_field = m_secrets
               THEN /\ m_trace' = Append(m_trace, Stage(5, "ok"))
                    /\ m_pc' = "s6"
                    /\ UNCHANGED m_field
               ELSE /\ m_field' = m_field + 1
                    /\ UNCHANGED <<m_trace, m_pc>>
            /\ UNCHANGED <<m_failedField, m_code>>
       ELSE /\ m_written' = AfterFieldFailure(m_written)
            /\ m_failedField' = m_field
            /\ m_trace' = Append(m_trace, Stage(5, "failed"))
            /\ m_pc' = OnUpsertFailure
            /\ m_code' = 1
            /\ UNCHANGED m_field
    /\ UNCHANGED <<m_dryRun, m_auto, m_backup, m_secrets, m_exists,
                   m_hadIgnore, m_fs>>

\* Stage 5, live, no item yet: one item with all secret fields is created
\* in a single operation (item create).
UpsertCreate(ok) ==
    /\ m_pc = "s5_create"
    /\ m_ops' = Append(m_ops, ToolOp("create", 0))
    /\ IF ok
       THEN /\ m_written' = 1..m_secrets
            /\ m_exists' = TRUE
            /\ m_trace' = Append(m_trace, Stage(5, "ok"))
            /\ m_pc' = "s6"
            /\ UNCHANGED m_code
       ELSE /\ m_trace' = Append(m_trace, Stage(5, "failed"))
            /\ m_pc' = OnUpsertFailure
            /\ m_code' = 1
            /\ UNCHANGED <<m_written, m_exists>>
    /\ UNCHANGED <<m_dryRun, m_auto, m_backup, m_secrets, m_hadIgnore,
                   m_field, m_failedField, m_fs>>

\* Stage 6: the template file is written, dry run or not.
GenerateTemplate ==
    /\ m_pc = "s6"
    /\ m_fs' = Append(m_fs, "template")
    /\ m_trace' = Append(m_trace, Stage(6, "ok"))
    /\ m_pc' = "s7"
    /\ UNCHANGED <<m_dryRun, m_auto, m_backup, m_secrets, m_exists,
                   m_hadIgnore, m_field, m_failedField, m_ops, m_written,
                   m_code>>

\* Stage 7: the backup copy, only if requested; the same in both modes.
Backup ==
    /\ m_pc = "s7"
    /\ IF m_backup
       THEN /\ m_fs' = Append(m_fs, "backup")
            /\ m_trace' = Append(m_trace, Stage(7, "ok"))
       ELSE /\ m_trace' = Append(m_trace, Stage(7, "skipped"))
            /\ UNCHANGED m_fs
    /\ m_pc' = "s8"
    /\ UNCHANGED <<m_dryRun, m_auto, m_backup, m_secrets, m_exists,
                   m_hadIgnore, m_field, m_failedField, m_ops, m_written,
                   m_code>>

\* Stage 8: the ignore file gets the block of patterns unless it already
\* references the environment file; then the run ends successfully.
UpdateIgnore ==
    /\ m_pc = "s8"
    /\ IF m_hadIgnore
       THEN /\ m_trace' = Append(m_trace, Stage(8, "noop"))
            /\ UNCHANGED m_fs
       ELSE /\ m_fs' = Append(m_fs, "ignore")
            /\ m_trace' = Append(m_trace, Stage(8, "ok"))
    /\ m_pc' = "exit"
    /\ m_code' = 0
    /\ UNCHANGED <<m_dryRun, m_auto, m_backup, m_secrets, m_exists,
                   m_hadIgnore, m_field, m_failedField, m_ops, m_written>>

(***************************************************************************)
(* NamingResolver.pathPattern, as section 4.3 of the specification states   *)
(* it, on the path of the environment file relative to the repository root. *)
(***************************************************************************)
PathSep == "/"

RootEnvFile == <<".", "e", "n", "v">>

\* Every path separator of parentDir becomes the double underscore.
RECURSIVE ReplaceSep(_)
ReplaceSep(dir) ==
    IF dir = <<>> THEN <<>>
    ELSE (IF Head(dir) = PathSep THEN <<"_", "_">> ELSE <<Head(dir)>>)
         \o ReplaceSep(Tail(dir))

\* The canonical token of the file name becomes env; a suffix is kept.
TransformFilename(filename) ==
    IF Slice(filename, 0, Len(RootEnvFile)) = RootEnvFile
    THEN <<"e", "n", "v">> \o Slice(filename, Len(RootEnvFile), Len(filename))
    ELSE filename

pathPattern(rel) ==
    IF rel = RootEnvFile THEN <<"r", "o", "o", "t">>
    ELSE LET cut == RFind(rel, <<PathSep>>, 0, Len(rel))
             parentDir == IF cut = -1 THEN <<>> ELSE Slice(rel, 0, cut)
             filename == Slice(rel, cut + 1, Len(rel))
         IN  IF parentDir # <<>>
             THEN ReplaceSep(parentDir) \o <<"_", "_">>
                  \o TransformFilename(filename)
             ELSE TransformFilename(filename)

\* pathPattern is called for the i-th of two environment files.
ComputePattern(i) ==
    /\ p_pat[i] = <<>>
    /\ p_pat' = [p_pat EXCEPT ![i] = pathPattern(p_rel[i])]
    /\ UNCHANGED p_rel

(***************************************************************************)
(* Idle values and initial states                                           *)
(***************************************************************************)
IdleSplit ==
    /\ sp_text = <<>>
    /\ sp_limit = 0
    /\ sp_parts = <<>>
    /\ sp_pc = "idle"

IdleFront ==
    /\ prog = "none"
    /\ environ = NoCfg
    /\ dotenv = NoCfg
    /\ installed = {}
    /\ cfg = NoCfg
    /\ f_pc = "idle"
    /\ created = {}
    /\ status = Running
    /\ checks = <<>>
    /\ received = <<>>
    /\ queried = <<>>
    /\ in_text = FALSE
    /\ f_out = "none"

\* bot.py after start-up: no session, no coroutine, nothing submitted.
IdleWs ==
    /\ w_sent = <<>>
    /\ w_events = <<>>
    /\ w_reads = 0
    /\ w_client = FALSE
    /\ w_errors = 0

IdlePage ==
    /\ pg_sock = "none"
    /\ pg_conn = 0
    /\ pg_srv = 0
    /\ pg_timer = FALSE
    /\ pg_next = 1
    /\ pg_out = <<>>
    /\ pg_sends = 0
    /\ pg_last = "none"
    /\ isStreaming = FALSE
    /\ currentBubble = 0
    /\ currentText = <<>>
    /\ currentTools = <<>>
    /\ pg_enabled = FALSE
    /\ chat = <<>>

IdleMig ==
    /\ m_pc = "idle"
    /\ m_dryRun = FALSE
    /\ m_auto = FALSE
    /\ m_backup = FALSE
    /\ m_secrets = 0
    /\ m_exists = FALSE
    /\ m_hadIgnore = FALSE
    /\ m_field = 0
    /\ m_failedField = 0
    /\ m_trace = <<>>
    /\ m_ops = <<>>
    /\ m_written = {}
    /\ m_fs = <<>>
    /\ m_code = Running

IdlePath ==
    /\ p_rel = <<<<>>, <<>>>>
    /\ p_pat = <<<<>>, <<>>>>

IdleTools == IdleWs /\ IdlePage /\ IdleMig /\ IdlePath

InitBotVars ==
    /\ sessions = [c \in Chats |-> NoSid]
    /\ hs = [h \in Handlers |-> Free]
    /\ tg = [kind |-> "none", len |-> 0]
    /\ fresh = [c \in Chats |-> FALSE]

(***************************************************************************)
(* Specification SpecSplit: split_message applied to every bounded text     *)
(***************************************************************************)
MaxSplitLen == 6
MaxSplitLimit == 3

InitSplit ==
    /\ sp_text \in SeqsUpTo({"a", NL}, MaxSplitLen)
    /\ sp_limit \in 1..MaxSplitLimit
    /\ sp_parts = <<>>
    /\ sp_pc = "call"
    /\ InitBotVars
    /\ IdleFront
    /\ IdleTools

CallSplit ==
    /\ sp_pc = "call"
    /\ sp_parts' = split_message(sp_text, sp_limit)
    /\ sp_pc' = "ret"
    /\ UNCHANGED <<sp_text, sp_limit>>

NextSplit == CallSplit /\ UNCHANGED <<vars_bot, vars_front, vars_ws, vars_page, vars_mig, vars_path>>

SpecSplit == InitSplit /\ [][NextSplit]_vars

\* C1: every part split_message returns is at most limit characters long
\* (limit >= 1), and a text that already fits is returned as the one part.
C1_SplitWithinLimit ==
    sp_pc = "ret" =>
        /\ \A i \in 1..Len(sp_parts) : Len(sp_parts[i]) <= sp_limit
        /\ (Len(sp_text) <= sp_limit => sp_parts = <<sp_text>>)

\* A text longer than the limit was cut at a newline and again without one.
C1_Witness ==
    /\ sp_pc = "ret"
    /\ Len(sp_text) > sp_limit
    /\ Len(sp_parts) >= 3
    /\ \E i \in 1..Len(sp_parts) : Len(sp_parts[i]) = sp_limit
    /\ \E i \in 1..Len(sp_parts) : Len(sp_parts[i]) < sp_limit
    /\ \E i \in 1..Len(sp_text) : sp_text[i] = NL

(***************************************************************************)
(* Specification SpecBot: bot.py handling commands and text messages of     *)
(* several chats concurrently (one asyncio task per update); the assistant  *)
(* sends no text and calls no tool.                                         *)
(***************************************************************************)
ResultTurns == {1, 25}
ResultCosts == {0, 123456}
ErrLens == {0, 300}

InitBot == IdleSplit /\ InitBotVars /\ IdleFront /\ IdleTools

NextBot ==
    \/ \E c \in Chats : CmdStart(c) /\ UNCHANGED <<vars_split, vars_front, vars_ws, vars_page, vars_mig, vars_path>>
    \/ \E c \in Chats : CmdReset(c) /\ UNCHANGED <<vars_split, vars_front, vars_ws, vars_page, vars_mig, vars_path>>
    \/ \E c \in Chats : CmdHelp(c) /\ UNCHANGED <<vars_split, vars_front, vars_ws, vars_page, vars_mig, vars_path>>
    \/ \E c \in Chats, h \in Handlers : ReceiveText(c, h) /\ UNCHANGED <<vars_split, vars_front, vars_ws, vars_page, vars_mig, vars_path>>
    \/ \E h \in Handlers : SendStatus(h) /\ UNCHANGED <<vars_split, vars_front, vars_ws, vars_page, vars_mig, vars_path>>
    \/ \E h \in Handlers : AbortEarly(h) /\ UNCHANGED <<vars_split, vars_front, vars_ws, vars_page, vars_mig, vars_path>>
    \/ \E h \in Handlers : OpenClient(h) /\ UNCHANGED <<vars_split, vars_front, vars_ws, vars_page, vars_mig, vars_path>>
    \/ \E h \in Handlers : Query(h) /\ UNCHANGED <<vars_split, vars_front, vars_ws, vars_page, vars_mig, vars_path>>
    \/ \E h \in Handlers, withSid \in BOOLEAN :
          RecvSystem(h, withSid) /\ UNCHANGED <<vars_split, vars_front, vars_ws, vars_page, vars_mig, vars_path>>
    \/ \E h \in Handlers : RecvResult(h, 1, 0) /\ UNCHANGED <<vars_split, vars_front, vars_ws, vars_page, vars_mig, vars_path>>
    \/ \E h \in Handlers : CloseClient(h) /\ UNCHANGED <<vars_split, vars_front, vars_ws, vars_page, vars_mig, vars_path>>
    \/ \E h \in Handlers : SaveSession(h) /\ UNCHANGED <<vars_split, vars_front, vars_ws, vars_page, vars_mig, vars_path>>
    \/ \E h \in Handlers : Fail(h, 0) /\ UNCHANGED <<vars_split, vars_front, vars_ws, vars_page, vars_mig, vars_path>>
    \/ \E h \in Handlers : FailReply(h) /\ UNCHANGED <<vars_split, vars_front, vars_ws, vars_page, vars_mig, vars_path>>
    \/ \E h \in Handlers : FailDone(h) /\ UNCHANGED <<vars_split, vars_front, vars_ws, vars_page, vars_mig, vars_path>>

SpecBot == InitBot /\ [][NextBot]_vars

\* C2: after /start or /reset of a chat, the first text message of that chat
\* received afterwards opens the agent client with resume = None, whatever
\* the interleaving with earlier handlers of the chat.
C2_FirstAfterResetIsNew ==
    \A h \in Handlers :
        hs[h].pc = "connect" /\ hs[h].first => hs[h].resume_id = NoSid

\* Every stored session id was issued for a message of the chat it is stored
\* under.
SessionsOwnChat ==
    \A c \in Chats : sessions[c] # NoSid => sessions[c][2] = c

\* A step reads sessions only under the chat of the message being handled,
\* and changes sessions[k] only as a command of chat k (removal) or as the
\* handler of a message of chat k storing the id it captured.
SessionsStep ==
    /\ \A h \in Handlers :
          hs[h].pc = "status" /\ hs'[h].pc = "connect"
              => hs'[h].resume_id = sessions[hs[h].chat]
    /\ \A k \in Chats :
          sessions'[k] # sessions[k] =>
              IF sessions'[k] = NoSid
              THEN fresh'[k] /\ hs' = hs
              ELSE \E h \in Handlers :
                      /\ hs[h].pc = "close" /\ hs'[h].pc = "done"
                      /\ hs[h].chat = k
                      /\ sessions'[k] = hs[h].new_session_id
                      /\ \A g \in Handlers \ {h} : hs'[g] = hs[g]

\* C3: session handles are kept per chat: a message of chat A is resumed with
\* sessions[A], sessions[A] only ever holds an id issued while handling a
\* message of chat A, and no handler touches sessions[B] for B # A.
C3_SessionsPerChat == []SessionsOwnChat /\ [][SessionsStep]_vars

\* A message is being resumed with the id an earlier message of its chat
\* stored.
C3_Witness ==
    \E h \in Handlers :
        /\ hs[h].pc = "connect"
        /\ hs[h].resume_id # NoSid
        /\ hs[h].resume_id = sessions[hs[h].chat]

(***************************************************************************)
(* Specification SpecFront: one of the three front-ends from process start; *)
(* the terminal REPL and the WebSocket endpoint then serve user inputs.     *)
(***************************************************************************)
MaxInputs == 3

TermInputs ==
    { <<>>, <<" ", " ">>, <<"h", "i">>, <<" ", "y", "o", "\t">>,
      <<"e", "x", "i", "t">>, <<" ", "Q", "u", "i", "t", " ">>,
      <<":", "q">> }

WsFrames ==
    { [type |-> "message", text |-> <<"h", "i">>],
      [type |-> "message", text |-> <<" ", "y", "o", NL>>],
      [type |-> "message", text |-> <<" ", " ">>],
      [type |-> "message", text |-> <<>>],
      [type |-> "ping", text |-> <<"h", "i">>] }

BlockKinds == {"text", "tool", "empty"}

InitFront ==
    /\ IdleSplit
    /\ InitBotVars
    /\ IdleTools
    /\ prog \in {"agent", "bot", "web"}
    /\ environ \in [EnvVars -> {Unset, "", Token}]
    /\ dotenv \in [EnvVars -> {Unset, "", Token}]
    /\ prog # "bot" => environ[TELEGRAM] = Unset /\ dotenv[TELEGRAM] = Unset
    /\ installed \in SUBSET {"sdk", "dotenv"}
    /\ prog # "agent" => "sdk" \in installed
    /\ cfg = NoCfg
    /\ f_pc = "boot"
    /\ created = {}
    /\ status = Running
    /\ checks = <<>>
    /\ received = <<>>
    /\ queried = <<>>
    /\ in_text = FALSE
    /\ f_out = "none"

NextFront ==
    \/ ImportSdk /\ UNCHANGED <<vars_split, vars_bot, vars_ws, vars_page, vars_mig, vars_path>>
    \/ LoadDotenv /\ UNCHANGED <<vars_split, vars_bot, vars_ws, vars_page, vars_mig, vars_path>>
    \/ ReadConfig /\ UNCHANGED <<vars_split, vars_bot, vars_ws, vars_page, vars_mig, vars_path>>
    \/ CheckTelegram /\ UNCHANGED <<vars_split, vars_bot, vars_ws, vars_page, vars_mig, vars_path>>
    \/ CheckCoder /\ UNCHANGED <<vars_split, vars_bot, vars_ws, vars_page, vars_mig, vars_path>>
    \/ CreateBot /\ UNCHANGED <<vars_split, vars_bot, vars_ws, vars_page, vars_mig, vars_path>>
    \/ CreateWeb /\ UNCHANGED <<vars_split, vars_bot, vars_ws, vars_page, vars_mig, vars_path>>
    \/ CreateRepl /\ UNCHANGED <<vars_split, vars_bot, vars_ws, vars_page, vars_mig, vars_path>>
    \/ \E line \in TermInputs :
          /\ Len(received) < MaxInputs
          /\ ReplRead(line)
          /\ UNCHANGED <<vars_split, vars_bot, vars_ws, vars_page, vars_mig, vars_path>>
    \/ ReplEof /\ UNCHANGED <<vars_split, vars_bot, vars_ws, vars_page, vars_mig, vars_path>>
    \/ ReplClose /\ UNCHANGED <<vars_split, vars_bot, vars_ws, vars_page, vars_mig, vars_path>>
    \/ ReplQueryDone /\ UNCHANGED <<vars_split, vars_bot, vars_ws, vars_page, vars_mig, vars_path>>
    \/ ReplText /\ UNCHANGED <<vars_split, vars_bot, vars_ws, vars_page, vars_mig, vars_path>>
    \/ ReplTool /\ UNCHANGED <<vars_split, vars_bot, vars_ws, vars_page, vars_mig, vars_path>>
    \/ \E withResult \in BOOLEAN :
          ReplDone(withResult) /\ UNCHANGED <<vars_split, vars_bot, vars_ws, vars_page, vars_mig, vars_path>>
    \/ \E kind \in {"interrupted", "error"} :
          ReplFail(kind) /\ UNCHANGED <<vars_split, vars_bot, vars_ws, vars_page, vars_mig, vars_path>>
    \/ WsAccept /\ UNCHANGED <<vars_split, vars_bot, vars_ws, vars_page, vars_mig, vars_path>>
    \/ WsOpenClient /\ UNCHANGED <<vars_split, vars_bot, vars_ws, vars_page, vars_mig, vars_path>>
    \/ WsReady /\ UNCHANGED <<vars_split, vars_bot, vars_ws, vars_page, vars_mig, vars_path>>
    \/ \E frame \in WsFrames :
          /\ Len(received) < MaxInputs
          /\ WsReceive(frame)
          /\ UNCHANGED <<vars_split, vars_bot, vars_ws, vars_page, vars_mig, vars_path>>
    \/ WsQueryDone /\ UNCHANGED <<vars_split, vars_bot, vars_ws, vars_page, vars_mig, vars_path>>
    \/ \E kind \in BlockKinds :
          /\ WsBlock(kind)
          /\ UNCHANGED <<vars_split, vars_bot, vars_ws, vars_page, vars_mig, vars_path>>
    \/ WsResult /\ UNCHANGED <<vars_split, vars_bot, vars_ws, vars_page, vars_mig, vars_path>>
    \/ WsNext /\ UNCHANGED <<vars_split, vars_bot, vars_ws, vars_page, vars_mig, vars_path>>
    \/ WsDisconnect /\ UNCHANGED <<vars_split, vars_bot, vars_ws, vars_page, vars_mig, vars_path>>
    \/ \E delivered \in BOOLEAN :
          WsError(delivered) /\ UNCHANGED <<vars_split, vars_bot, vars_ws, vars_page, vars_mig, vars_path>>

SpecFront == InitFront /\ [][NextFront]_vars

\* What the inputs read so far oblige the front-end to have passed on: the
\* trimmed text of every input that is not blank and, in the terminal, is
\* not an exit word (in the browser: of every frame of type message).
RECURSIVE Forwarded(_)
Forwarded(inputs) ==
    IF inputs = <<>> THEN <<>>
    ELSE LET x == Head(inputs)
             t == IF prog = "web" THEN Strip(x.text) ELSE Strip(x)
             ok == IF prog = "web"
                   THEN x.type = "message" /\ t # <<>>
                   ELSE t # <<>> /\ Lower(t) \notin ExitWords
         IN  (IF ok THEN <<t>> ELSE <<>>) \o Forwarded(Tail(inputs))

\* C5: the terminal and the browser front-end pass every input that is not
\* blank after trimming (and is no exit word) to client.query exactly once,
\* in the order received, and never pass a blank input.
C5_ForwardsFaithfully == queried = Forwarded(received)

\* Two different texts were passed on and a blank input between them was not.
C5_Witness ==
    /\ prog = "agent"
    /\ Len(received) = 3
    /\ Len(queried) = 2
    /\ queried[1] # queried[2]
    /\ Strip(received[2]) = <<>>

\* C6: with CODER_SESSION_TOKEN empty or unset every front-end exits with
\* status 1 before it creates an agent client, bot, dispatcher or HTTP
\* server; the bot does the same for TELEGRAM_BOT_TOKEN, which it tests
\* before CODER_SESSION_TOKEN.
C6_StartupGuard ==
    LET coderEmpty == cfg[CODER] = ""
        telegramEmpty == prog = "bot" /\ cfg[TELEGRAM] = ""
    IN  /\ coderEmpty \/ telegramEmpty =>
              /\ created = {}
              /\ f_pc \in {"check_telegram", "check_coder", "exited"}
              /\ f_pc = "exited" => status = 1
        /\ prog = "bot" =>
              /\ checks \in {<<>>, <<TELEGRAM>>, <<TELEGRAM, CODER>>}
              /\ telegramEmpty => checks \in {<<>>, <<TELEGRAM>>}

\* The bot found TELEGRAM_BOT_TOKEN set and CODER_SESSION_TOKEN empty, and
\* exited.
C6_Witness ==
    /\ prog = "bot"
    /\ f_pc = "exited"
    /\ status = 1
    /\ cfg[TELEGRAM] = Token
    /\ cfg[CODER] = ""
    /\ checks = <<TELEGRAM, CODER>>
    /\ created = {}

(***************************************************************************)
(* Specification SpecWeb: the web server after start-up, serving one        *)
(* connection after another, with the connection's history recorded.        *)
(***************************************************************************)
MaxEvents == 4

MaxReads == 2

\* Client frames read by receive_json: a message, a blank message, a
\* message without text (read as the empty string), and a frame of another
\* type.
WebFrames ==
    { [type |-> "message", text |-> <<"h", "i">>],
      [type |-> "message", text |-> <<" ", NL>>],
      [type |-> "message", text |-> <<>>],
      [type |-> "ping", text |-> <<"h", "i">>] }

InitWeb ==
    /\ IdleSplit
    /\ InitBotVars
    /\ IdleWs
    /\ IdlePage
    /\ IdleMig
    /\ IdlePath
    /\ prog = "web"
    /\ environ = [v \in EnvVars |-> IF v = CODER THEN Token ELSE Unset]
    /\ dotenv = NoCfg
    /\ installed = {"sdk", "dotenv"}
    /\ cfg = [v \in EnvVars |-> IF v = CODER THEN Token ELSE Unset]
    /\ f_pc = "serving"
    /\ created = {"app", "server"}
    /\ status = Running
    /\ checks = <<CODER>>
    /\ received = <<>>
    /\ queried = <<>>
    /\ in_text = FALSE
    /\ f_out = "none"

NextWeb ==
    \/ WsAccept /\ LogAccept
          /\ UNCHANGED <<vars_split, vars_bot, vars_page, vars_mig, vars_path>>
    \/ WsOpenClient /\ LogOpenClient
          /\ UNCHANGED <<vars_split, vars_bot, vars_page, vars_mig, vars_path>>
    \/ WsReady /\ LogReady
          /\ UNCHANGED <<vars_split, vars_bot, vars_page, vars_mig, vars_path>>
    \/ \E frame \in WebFrames :
          /\ Len(received) < MaxReads
          /\ WsReceive(frame) /\ LogReceive
          /\ UNCHANGED <<vars_split, vars_bot, vars_page, vars_mig, vars_path>>
    \/ WsQueryDone
          /\ UNCHANGED <<vars_split, vars_bot, vars_ws, vars_page, vars_mig, vars_path>>
    \/ \E kind \in BlockKinds :
          /\ Len(w_events) < MaxEvents
          /\ WsBlock(kind) /\ LogBlock(kind)
          /\ UNCHANGED <<vars_split, vars_bot, vars_page, vars_mig, vars_path>>
    \/ WsResult /\ LogResult
          /\ UNCHANGED <<vars_split, vars_bot, vars_page, vars_mig, vars_path>>
    \/ WsNext
          /\ UNCHANGED <<vars_split, vars_bot, vars_ws, vars_page, vars_mig, vars_path>>
    \/ WsDisconnect /\ LogDisconnect
          /\ UNCHANGED <<vars_split, vars_bot, vars_page, vars_mig, vars_path>>
    \/ \E delivered \in BOOLEAN :
          WsError(delivered) /\ LogError(delivered)
          /\ UNCHANGED <<vars_split, vars_bot, vars_page, vars_mig, vars_path>>

SpecWeb == InitWeb /\ [][NextWeb]_vars

\* The frames sent that relay something of a response, in the order sent.
Relays == SelectSeq(w_sent, LAMBDA f : f.src # 0)

\* C12: the text, tool and done frames sent are exactly the non-empty text
\* blocks, tool blocks and results yielded, each once, of the matching type
\* and in the order yielded; responses follow one another without
\* interleaving, nothing of a response follows its done frame, and when the
\* server waits for the next client frame after a result, that result's
\* done frame is the last frame sent.
C12_ResponseFraming ==
    /\ \A i \in 1..Len(Relays), j \in 1..Len(Relays) :
          i < j => Relays[i].src < Relays[j].src
    /\ {Relays[i].src : i \in 1..Len(Relays)}
          = {k \in 1..Len(w_events) :
                w_events[k].kind \in {"text", "tool", "result"}}
    /\ \A i \in 1..Len(Relays) :
          Relays[i].type = IF w_events[Relays[i].src].kind = "result"
                           THEN "done"
                           ELSE w_events[Relays[i].src].kind
    /\ \A i \in 1..Len(w_events), j \in 1..Len(w_events) :
          i < j =>
             /\ w_events[i].resp <= w_events[j].resp
             /\ w_events[i].kind = "result" =>
                   w_events[i].resp < w_events[j].resp
    /\ (f_pc = "ws_recv" /\ w_events # <<>>
           /\ w_events[Len(w_events)].kind = "result") =>
          w_sent[Len(w_sent)] = Frame("done", Len(w_events))

\* Two responses on one connection, one of them with an empty text block
\* that was passed over, each closed by its done frame.
C12_Witness ==
    /\ Len(w_sent) = 5
    /\ w_sent[2].type = "text"
    /\ w_sent[3].type = "done"
    /\ w_sent[4].type = "tool"
    /\ w_sent[5].type = "done"
    /\ \E k \in 1..Len(w_events) : w_events[k].kind = "empty"

\* The number of ready frames sent on the connection.
ReadyCount == Cardinality({i \in 1..Len(w_sent) : w_sent[i].type = "ready"})

ReadyFirst ==
    /\ ReadyCount <= 1
    /\ \A i \in 1..Len(w_sent) :
          w_sent[i].type \in {"ready", "text", "tool", "done"} =>
             w_sent[1].type = "ready"
    /\ w_reads > 0 => ReadyCount = 1
    /\ f_pc \in {"ws_recv", "ws_query", "ws_stream", "ws_done"} =>
          ReadyCount = 1 /\ w_client

ReadyStep ==
    /\ ReadyCount' > ReadyCount => w_client /\ w_client' /\ w_reads = 0
    /\ w_reads' > w_reads => ReadyCount = 1

\* C13 as amended: on every connection the ready frame is sent at most
\* once, and exactly once when the agent client was opened and the send
\* succeeded; it is sent while the client is open, it is the first frame of
\* the connection, before any text, tool or done frame, and no client frame
\* is read before it.
C13_ReadyOnceFirst == []ReadyFirst /\ [][ReadyStep]_vars

\* Ready was sent, then a client frame was read and answered.
C13_Witness ==
    /\ ReadyCount = 1
    /\ w_reads = 2
    /\ Len(w_sent) = 3
    /\ w_sent[3].type = "done"

\* C13 as stated: every connection the server has finished serving got the
\* ready frame exactly once.
C13_ReadyOnEveryConnection ==
    (f_pc = "serving" /\ (w_errors > 0 \/ w_sent # <<>>)) => ReadyCount = 1

\* The handler is not serving a connection: it has not been called yet or
\* it has returned.
Returned == f_pc = "serving"

ErrorHandled ==
    /\ f_pc \in {"serving", "ws_open", "ws_ready", "ws_recv", "ws_query",
                 "ws_stream", "ws_done"}
    /\ w_errors <= 1
    /\ w_errors = 1 => Returned /\ ~w_client
    /\ \A i \in 1..Len(w_sent) :
          w_sent[i].type = "error" =>
             i = Len(w_sent) /\ w_errors = 1 /\ Returned

ErrorStep ==
    /\ w_errors' > w_errors =>
          /\ Returned'
          /\ w_reads' = w_reads
          /\ w_sent' \in {w_sent, Append(w_sent, Frame("error", 0))}
    /\ (~Returned /\ Returned' /\ w_errors' = w_errors) =>
          w_sent' = w_sent /\ w_reads' = w_reads
    /\ (Returned /\ Returned') => w_sent' = w_sent /\ w_reads' = w_reads
    /\ (Returned /\ ~Returned') =>
          w_sent' = <<>> /\ w_reads' = 0 /\ w_errors' = 0

\* C14: an exception other than WebSocketDisconnect makes the handler
\* attempt one error frame, not more, and return: nothing is read or sent
\* on that connection afterwards; on WebSocketDisconnect the handler
\* returns without sending; the handler always returns, it never raises.
C14_ErrorHandling == []ErrorHandled /\ [][ErrorStep]_vars

\* An exception in the middle of a response: the error frame was delivered
\* after a text frame and the handler returned.
C14_Witness ==
    /\ Returned
    /\ w_errors = 1
    /\ Len(w_sent) = 3
    /\ w_sent[2].type = "text"
    /\ w_sent[3].type = "error"

\* A client frame of another type than message, or with blank text.
Ignorable(frame) == frame.type # "message" \/ Strip(frame.text) = <<>>

IgnoredStep ==
    (w_reads' = w_reads + 1 /\ Ignorable(received'[Len(received')])) =>
        /\ queried' = queried
        /\ w_events' = w_events
        /\ w_sent' = w_sent
        /\ f_pc' = "ws_recv"

\* C15: reading a client frame whose type is not message, or whose text is
\* empty after trimming, causes no query and no outbound frame, and leaves
\* the server waiting for the next client frame.
C15_IgnoredFrames == [][IgnoredStep]_vars

\* Two frames were read and ignored: only ready has been sent, nothing was
\* queried and the server waits for the next frame.
C15_Witness ==
    /\ w_reads = 2
    /\ received[1].type = "ping"
    /\ received[2].type = "message"
    /\ queried = <<>>
    /\ w_sent = <<Frame("ready", 0)>>
    /\ f_pc = "ws_recv"

(***************************************************************************)
(* Specification SpecPage: one page and the web server: the page's socket   *)
(* is served by ws_endpoint, the frames ws_endpoint sends arrive at         *)
(* onmessage in order, and the socket can close at any point.               *)
(***************************************************************************)
MaxConns == 2

MaxSends == 2

PageTexts == { <<"h", "i">>, <<" ">> }

InitPage == InitWeb

NextPage ==
    \/ /\ pg_conn < MaxConns
       /\ PageConnect
       /\ UNCHANGED <<vars_split, vars_bot, vars_front, vars_ws, vars_mig, vars_path>>
    \/ PageOnOpen
          /\ UNCHANGED <<vars_split, vars_bot, vars_front, vars_ws, vars_mig, vars_path>>
    \/ PageOnClose
          /\ UNCHANGED <<vars_split, vars_bot, vars_front, vars_ws, vars_mig, vars_path>>
    \/ PageOnReady
          /\ UNCHANGED <<vars_split, vars_bot, vars_front, vars_ws, vars_mig, vars_path>>
    \/ PageOnText
          /\ UNCHANGED <<vars_split, vars_bot, vars_front, vars_ws, vars_mig, vars_path>>
    \/ PageOnTool
          /\ UNCHANGED <<vars_split, vars_bot, vars_front, vars_ws, vars_mig, vars_path>>
    \/ PageOnDone
          /\ UNCHANGED <<vars_split, vars_bot, vars_front, vars_ws, vars_mig, vars_path>>
    \/ PageOnError
          /\ UNCHANGED <<vars_split, vars_bot, vars_front, vars_ws, vars_mig, vars_path>>
    \/ \E text \in PageTexts :
          /\ pg_sends < MaxSends
          /\ PageSend(text)
          /\ UNCHANGED <<vars_split, vars_bot, vars_front, vars_ws, vars_mig, vars_path>>
    \/ WsAccept /\ LogAccept /\ LinkAccept
          /\ UNCHANGED <<vars_split, vars_bot, vars_mig, vars_path>>
    \/ WsOpenClient /\ LogOpenClient
          /\ UNCHANGED <<vars_split, vars_bot, vars_page, vars_mig, vars_path>>
    \/ WsReady /\ LogReady
          /\ UNCHANGED <<vars_split, vars_bot, vars_page, vars_mig, vars_path>>
    \/ /\ pg_out # <<>>
       /\ WsReceive(Head(pg_out)) /\ LogReceive /\ LinkReceive
       /\ UNCHANGED <<vars_split, vars_bot, vars_mig, vars_path>>
    \/ WsQueryDone
          /\ UNCHANGED <<vars_split, vars_bot, vars_ws, vars_page, vars_mig, vars_path>>
    \/ \E kind \in BlockKinds :
          /\ Len(w_events) < MaxEvents
          /\ WsBlock(kind) /\ LogBlock(kind)
          /\ UNCHANGED <<vars_split, vars_bot, vars_page, vars_mig, vars_path>>
    \/ WsResult /\ LogResult
          /\ UNCHANGED <<vars_split, vars_bot, vars_page, vars_mig, vars_path>>
    \/ WsNext
          /\ UNCHANGED <<vars_split, vars_bot, vars_ws, vars_page, vars_mig, vars_path>>
    \/ WsDisconnect /\ LogDisconnect
          /\ UNCHANGED <<vars_split, vars_bot, vars_page, vars_mig, vars_path>>
    \/ \E delivered \in BOOLEAN :
          WsError(delivered) /\ LogError(delivered)
          /\ UNCHANGED <<vars_split, vars_bot, vars_page, vars_mig, vars_path>>

SpecPage == InitPage /\ [][NextPage]_vars

\* The page has reconnected and the new connection has just delivered ready.
Recovered == pg_conn >= 2 /\ pg_sock = "open" /\ pg_last = "ready"

\* C16: after the socket closed at any point, once the new connection has
\* delivered ready the user can send again: the input is enabled and send()
\* with a non-empty text transmits a frame.
C16_RecoveryAfterReconnect ==
    Recovered => (pg_enabled /\ SendTransmits(<<"h", "i">>))

\* C17: every done frame returns the page to the ready state: isStreaming is
\* false and the input and the send button are enabled.
C17_DoneReturnsToReady ==
    pg_last = "done" => (~isStreaming /\ pg_enabled)

\* Every chunk of seq belongs to response resp.
OwnChunks(seq, resp) == \A k \in 1..Len(seq) : seq[k] = resp

\* C18: the text and the tool badges of each response are rendered into the
\* message element created for that response, and a finished element is not
\* changed by a later response: every assistant element shows text and
\* badges of its own response only (an error message in place of the text
\* is not counted).
C18_OwnElementRendering ==
    \A i \in 1..Len(chat) :
        chat[i].kind = "assistant" =>
            /\ OwnChunks(chat[i].tools, chat[i].resp)
            /\ \/ OwnChunks(chat[i].bubble, chat[i].resp)
               \/ chat[i].bubble = <<ErrorChunk>>

(***************************************************************************)
(* Specification SpecMsg: bot.py handling text messages one at a time, the  *)
(* assistant sending text blocks and tool calls.                            *)
(***************************************************************************)
MsgHandlers == 1
MaxTextLen == 4500
MaxTools == 3

\* 2005 characters without a line break, and a 1500-character paragraph.
MsgBlocks == {Rep("a", 2005), Rep("a", 1498) \o <<NL, NL>>}

ToolNames ==
    { <<"c", "o", "d", "e", "r", "_", "w", "o", "r", "k", "s", "p", "a", "c",
        "e", "_", "b", "a", "s", "h">>,
      <<"m", "c", "p", "_", "_", "c", "o", "d", "e", "r", "_", "_", "c", "o",
        "d", "e", "r", "_", "w", "o", "r", "k", "s", "p", "a", "c", "e", "_",
        "b", "a", "s", "h">> }

MsgH == 1..MsgHandlers

NextMsg ==
    \/ \E c \in Chats, h \in MsgH : ReceiveText(c, h) /\ UNCHANGED <<vars_split, vars_front, vars_ws, vars_page, vars_mig, vars_path>>
    \/ \E h \in MsgH : SendStatus(h) /\ UNCHANGED <<vars_split, vars_front, vars_ws, vars_page, vars_mig, vars_path>>
    \/ \E h \in MsgH : AbortEarly(h) /\ UNCHANGED <<vars_split, vars_front, vars_ws, vars_page, vars_mig, vars_path>>
    \/ \E h \in MsgH : OpenClient(h) /\ UNCHANGED <<vars_split, vars_front, vars_ws, vars_page, vars_mig, vars_path>>
    \/ \E h \in MsgH : Query(h) /\ UNCHANGED <<vars_split, vars_front, vars_ws, vars_page, vars_mig, vars_path>>
    \/ \E h \in MsgH, withSid \in BOOLEAN :
          RecvSystem(h, withSid) /\ UNCHANGED <<vars_split, vars_front, vars_ws, vars_page, vars_mig, vars_path>>
    \/ \E h \in MsgH, text \in MsgBlocks :
          /\ Len(hs[h].full_text) <= MaxTextLen
          /\ RecvText(h, text)
          /\ UNCHANGED <<vars_split, vars_front, vars_ws, vars_page, vars_mig, vars_path>>
    \/ \E h \in MsgH, name \in ToolNames :
          /\ Len(hs[h].tools_used) < MaxTools
          /\ RecvTool(h, name)
          /\ UNCHANGED <<vars_split, vars_front, vars_ws, vars_page, vars_mig, vars_path>>
    \/ \E h \in MsgH, turns \in ResultTurns, c4 \in ResultCosts :
          RecvResult(h, turns, c4) /\ UNCHANGED <<vars_split, vars_front, vars_ws, vars_page, vars_mig, vars_path>>
    \/ \E h \in MsgH : SendPart(h) /\ UNCHANGED <<vars_split, vars_front, vars_ws, vars_page, vars_mig, vars_path>>
    \/ \E h \in MsgH : CloseClient(h) /\ UNCHANGED <<vars_split, vars_front, vars_ws, vars_page, vars_mig, vars_path>>
    \/ \E h \in MsgH : SaveSession(h) /\ UNCHANGED <<vars_split, vars_front, vars_ws, vars_page, vars_mig, vars_path>>
    \/ \E h \in MsgH, n \in ErrLens : Fail(h, n) /\ UNCHANGED <<vars_split, vars_front, vars_ws, vars_page, vars_mig, vars_path>>
    \/ \E h \in MsgH : FailReply(h) /\ UNCHANGED <<vars_split, vars_front, vars_ws, vars_page, vars_mig, vars_path>>
    \/ \E h \in MsgH : FailDone(h) /\ UNCHANGED <<vars_split, vars_front, vars_ws, vars_page, vars_mig, vars_path>>

SpecMsg == InitBot /\ [][NextMsg]_vars

\* Telegram's message length limit, as the system prompt states it.
TelegramMax == 4096

\* C4: every text handle_message submits to Telegram (preview edit, part of
\* the final answer, error notice) is at most 4096 characters long.
C4_WithinTelegramLimit ==
    tg.kind \in {"preview", "final", "error"} => tg.len <= TelegramMax

(***************************************************************************)
(* Specification SpecMig: one migration run, for every choice of the flags, *)
(* the number of secrets, the vault's and the ignore file's prior state,    *)
(* and every outcome of the external steps.                                 *)
(***************************************************************************)
MaxSecrets == 3

InitMig ==
    /\ IdleSplit
    /\ InitBotVars
    /\ IdleFront
    /\ IdleWs
    /\ IdlePage
    /\ IdlePath
    /\ m_pc = "s1"
    /\ m_dryRun \in BOOLEAN
    /\ m_auto \in BOOLEAN
    /\ m_backup \in BOOLEAN
    /\ m_secrets \in 0..MaxSecrets
    /\ m_exists \in BOOLEAN
    /\ m_hadIgnore \in BOOLEAN
    /\ m_field = 0
    /\ m_failedField = 0
    /\ m_trace = <<>>
    /\ m_ops = <<>>
    /\ m_written = {}
    /\ m_fs = <<>>
    /\ m_code = Running

NextMig ==
    \/ \E ok \in BOOLEAN :
          ResolveNaming(ok)
          /\ UNCHANGED <<vars_split, vars_bot, vars_front, vars_ws, vars_page, vars_path>>
    \/ \E ok \in BOOLEAN :
          ParseSource(ok)
          /\ UNCHANGED <<vars_split, vars_bot, vars_front, vars_ws, vars_page, vars_path>>
    \/ Partition /\ UNCHANGED <<vars_split, vars_bot, vars_front, vars_ws, vars_page, vars_path>>
    \/ \E installedTool \in BOOLEAN, authenticated \in BOOLEAN :
          ValidateTool(installedTool, authenticated)
          /\ UNCHANGED <<vars_split, vars_bot, vars_front, vars_ws, vars_page, vars_path>>
    \/ UpsertPrint /\ UNCHANGED <<vars_split, vars_bot, vars_front, vars_ws, vars_page, vars_path>>
    \/ UpsertLookup /\ UNCHANGED <<vars_split, vars_bot, vars_front, vars_ws, vars_page, vars_path>>
    \/ \E ok \in BOOLEAN :
          UpsertEdit(ok)
          /\ UNCHANGED <<vars_split, vars_bot, vars_front, vars_ws, vars_page, vars_path>>
    \/ \E ok \in BOOLEAN :
          UpsertCreate(ok)
          /\ UNCHANGED <<vars_split, vars_bot, vars_front, vars_ws, vars_page, vars_path>>
    \/ GenerateTemplate
          /\ UNCHANGED <<vars_split, vars_bot, vars_front, vars_ws, vars_page, vars_path>>
    \/ Backup /\ UNCHANGED <<vars_split, vars_bot, vars_front, vars_ws, vars_page, vars_path>>
    \/ UpdateIgnore /\ UNCHANGED <<vars_split, vars_bot, vars_front, vars_ws, vars_page, vars_path>>

SpecMig == InitMig /\ [][NextMig]_vars

Written(file) == \E i \in 1..Len(m_fs) : m_fs[i] = file

\* C7: in a dry run the vault tool is never called (no validation, no item
\* get, edit or create) and no field is written, while the template, the
\* backup if requested, and the ignore-file block if not yet there are
\* written by the time the run ends.
C7_DryRunLocalOnly ==
    m_dryRun =>
        /\ m_ops = <<>>
        /\ m_written = {}
        /\ m_pc \in {"s7", "s8", "exit"} /\ m_secrets > 0 /\ m_code # 1
              => Written("template")
        /\ m_pc \in {"s8", "exit"} /\ m_secrets > 0 /\ m_code # 1
              => (Written("backup") <=> m_backup)
        /\ m_pc = "exit" /\ m_secrets > 0 /\ m_code # 1
              => (Written("ignore") <=> ~m_hadIgnore) /\ m_code = 0

\* A dry run ended having written the template, the backup and the ignore
\* file.
C7_Witness ==
    /\ m_dryRun
    /\ m_pc = "exit"
    /\ m_code = 0
    /\ m_fs = <<"template", "backup", "ignore">>
    /\ m_ops = <<>>

\* Stage n has been passed: completed, or skipped as the mode prescribes
\* (stage 4 in a dry run).
Passed(n) ==
    /\ Len(m_trace) >= n
    /\ \/ m_trace[n].outcome = "ok"
       \/ n = 4 /\ m_dryRun /\ m_trace[n].outcome = "skipped"

\* C8: the stages run in the order 1..8; a stage that fails or ends the run
\* is the last one; a failure of naming resolution leaves no mutation, a
\* failure of the upsert leaves no template; whenever a template, backup or
\* ignore-file write has happened, stages 1 to 5 have all been passed
\* before it (stage 4 is passed by being skipped in a dry run).
C8_StagesOrdered ==
    /\ \A i \in 1..Len(m_trace) : m_trace[i].stage = i
    /\ \A i \in 1..(Len(m_trace) - 1) : m_trace[i].outcome \in {"ok", "skipped"}
    /\ \A i \in 1..Len(m_trace) :
          m_trace[i].outcome = "failed" => m_pc = "exit" /\ m_code = 1
    /\ (m_trace # <<>> /\ m_trace[1].outcome = "failed") =>
          m_ops = <<>> /\ m_written = {} /\ m_fs = <<>>
    /\ (Len(m_trace) >= 5 /\ m_trace[5].outcome = "failed") => m_fs = <<>>
    /\ m_fs # <<>> => \A n \in 1..5 : Passed(n)

\* A live run validated the tool, upserted, and wrote all three files.
C8_Witness ==
    /\ ~m_dryRun
    /\ m_pc = "exit"
    /\ m_fs = <<"template", "backup", "ignore">>
    /\ \A n \in 1..5 : m_trace[n].outcome = "ok"

\* What holds once the update of field m_failedField has failed.
AbortedAtField ==
    m_failedField # 0 =>
        /\ m_pc = "exit"
        /\ m_code = 1
        /\ m_written = 1..(m_failedField - 1)
        /\ m_ops[Len(m_ops)] = ToolOp("edit", m_failedField)
        /\ m_fs = <<>>

\* C10: when the update of one field of an existing item fails, the run is
\* over (exit 1): the failed update is the last call of the vault tool, so
\* no later field is written; exactly the fields before it are written and
\* no step ever takes a written field back; no template is generated.
C10_PartialUpsertAborts ==
    /\ []AbortedAtField
    /\ [][m_written \subseteq m_written']_vars

\* The update of the second of three fields failed after the first was
\* written.
C10_Witness ==
    /\ m_secrets = 3
    /\ m_failedField = 2
    /\ m_written = {1}
    /\ m_pc = "exit"

\* C11: when the partition holds zero secrets the run ends at stage 3 with
\* exit code 0 and has mutated nothing: no call of the vault tool, no field
\* written, no template, no backup, no change of the ignore file.
C11_NoSecretsNoOp ==
    (m_secrets = 0 /\ m_pc \notin {"s1", "s2", "s3"}
        /\ \A i \in 1..Len(m_trace) : m_trace[i].outcome # "failed") =>
        /\ m_pc = "exit"
        /\ m_code = 0
        /\ Len(m_trace) = 3
        /\ m_ops = <<>>
        /\ m_written = {}
        /\ m_fs = <<>>

\* A live run with backup requested found no secret and ended.
C11_Witness ==
    /\ m_secrets = 0
    /\ ~m_dryRun
    /\ m_backup
    /\ m_pc = "exit"
    /\ m_code = 0
    /\ Len(m_trace) = 3

(***************************************************************************)
(* Specification SpecPath: pathPattern applied to two environment files of  *)
(* one repository.                                                          *)
(***************************************************************************)
MaxDepth == 2

DirNames ==
    { <<"a">>, <<"b">>, <<"a", "-", "b">>, <<"a", "_", "_", "b">> }

EnvFileNames == { RootEnvFile, RootEnvFile \o <<".", "l", "o", "c", "a", "l">> }

RelPaths ==
    { Join(dirs \o <<file>>, <<PathSep>>) :
        dirs \in SeqsUpTo(DirNames, MaxDepth), file \in EnvFileNames }

InitPath ==
    /\ IdleSplit
    /\ InitBotVars
    /\ IdleFront
    /\ IdleWs
    /\ IdlePage
    /\ IdleMig
    /\ p_rel \in [1..2 -> RelPaths]
    /\ p_pat = <<<<>>, <<>>>>

NextPath ==
    \E i \in 1..2 :
        ComputePattern(i)
        /\ UNCHANGED <<vars_split, vars_bot, vars_front, vars_ws, vars_page, vars_mig>>

SpecPath == InitPath /\ [][NextPath]_vars

\* C9: two distinct relative paths of environment files never get the same
\* path pattern.
C9_PathPatternInjective ==
    (p_pat[1] # <<>> /\ p_pat[2] # <<>> /\ p_rel[1] # p_rel[2])
        => p_pat[1] # p_pat[2]

====
